---- MODULE Spec2Model ----
(***************************************************************************)
(* Model of the embedded datastore service (Electronya/embedded-datastore). *)
(*                                                                         *)
(* The repository holds several generations of the same files.  The model  *)
(* takes each operation from the place where its code exists:              *)
(*   - the buffer pool           : datastoreBufferPool.c (unnamed/part_001)*)
(*   - the datapoint tables, the table read/write and the notification     *)
(*                                : datastoreUtil.c (unnamed/part_003)     *)
(*   - the per-type registries   : datastoreUtil.c (src/datastoreUtil.c)   *)
(*   - the service thread, the generic read/write calls and the per-type   *)
(*     wrappers                  : datastore.c (unnamed/part_001)          *)
(* The statements of run's dispatch stand in datastore.c as commented-out  *)
(* lines (part_001:318-336); the model takes them as the handler's body,   *)
(* with datastoreUtilRead/Write being datastoreUtilReadData/WriteData.     *)
(* datastoreInit creates the notification buffer pool the way the earlier  *)
(* datastore.c does (datastoreUtilInitBufferPool), and the thread it       *)
(* creates is taken as started.  A datapoint is its data word and its      *)
(* flags; a buffer element is a data word.                                 *)
(***************************************************************************)
EXTENDS Integers, Sequences, FiniteSets, TLC

(***************************************************************************)
(* Bounds of the model.                                                    *)
(***************************************************************************)
MaxBufferSize == 3
MaxPoolSize == 3
OobSlack == 1
MaxType == 1          \* datapoint types 0..MaxType take part
MaxCount == 2         \* valCount of a request
MaxVal == 1           \* values a caller writes
MaxWord == 3          \* words 0..MaxWord a read of unset memory can yield
MaxCallers == 2       \* caller threads
MaxActive == 1        \* caller threads that make calls in a behaviour
MaxRequests == 2      \* read/write calls in a behaviour
MaxAdmin == 3         \* subscribe/pause/unpause calls in a behaviour
MaxSubCap == 4        \* maxSubs[type] handed to datastoreInit
MaxSubId == 1         \* datapointId of a subscription
MaxSubCount == 2      \* valCount of a subscription
MaxCb == 2            \* distinct callbacks
MaxNotifyWrites == 1  \* write calls in a behaviour with subscriptions
MaxNotifyAdmin == 2   \* subscribe/pause/unpause calls in such a behaviour

(***************************************************************************)
(* Program constants.                                                      *)
(***************************************************************************)
DATAPOINT_FLOAT == 0
DATAPOINT_TYPE_COUNT == 5
FLOAT_DATAPOINT_COUNT == 4
UINT_DATAPOINT_COUNT == 4
INT_DATAPOINT_COUNT == 4
MULTI_STATE_DATAPOINT_COUNT == 4
BUTTON_DATAPOINT_COUNT == 4
DATAPOINT_FLAG_NVM_MASK == 1
DATASTORE_MSG_COUNT == 10
DATASTORE_BUFFER_COUNT == 10
SIZEOF_DATAPOINT_DATA == 4     \* sizeof(DatapointData_t), in bytes

(***************************************************************************)
(* Pointers: NULL, a pointer read from memory that holds no pointer of the *)
(* program (WILD), and the buffers 1, 2, ... allocated by the pool.        *)
(***************************************************************************)
NULL == 0
WILD == -1
NULLPOOL == [poolSize |-> 0, bufferSize |-> 0, bufferInPool |-> 0,
             buffers |-> << >>, beyond |-> << >>, valid |-> FALSE]

\* A value no code of the program has set: an element of a buffer that was
\* never written, a word read past the end of an array.
UNINIT == -1

Types == 0..MaxType
Val == 0..MaxVal
Words == 0..MaxWord
Callers == 1..MaxCallers
Callbacks == 1..MaxCb
ActiveCallers == 1..MaxActive

VARIABLES
  bufPool,        \* the DatastoreBufferPool_t the pool calls work on
  held,           \* pool client: the buffers it got and has not given back
  plast,          \* pool client: the last pool call and what it returned
  datapoints,     \* datapoints[type][i] = [data, flags]
  subs,           \* subs[type] = [entries, maxCount, allocated]
  thread,         \* "none" until datastoreInit created the service thread
  osFree,         \* free blocks of bufferPool, the wrappers' memory pool
  datastoreQueue, \* the messages in datastoreQueue
  errOp,          \* run's local errOp
  needToNotify,   \* run's local needToNotify
  caller,         \* caller[c]: the call thread c is in, or made last
  respQ,          \* respQ[c]: the statuses in the response queue of c
  last,           \* the message run processed last and what it did
  alast,          \* the last subscribe/pause/unpause call and its status
  nReq,           \* read/write calls made so far
  nAdmin,         \* subscribe/pause/unpause calls made so far
  binarySubs,     \* binarySubs = [entries, maxCount, activeCount]
  blast,          \* the last binary subscribe/pause/unpause call
  pc,             \* pc.admin, pc.actor: the call a thread is inside of a
                  \* registry function, the notification run is in
  poolHeap        \* blocks k_malloc gave datastoreBufPoolInit and nobody freed

poolVars == <<bufPool, held, plast>>
sysVars == <<datapoints, subs, thread, osFree, datastoreQueue, errOp,
             needToNotify, caller, respQ, last, alast, nReq, nAdmin,
             binarySubs, blast, pc, poolHeap>>
vars == <<bufPool, held, plast, datapoints, subs, thread, osFree,
          datastoreQueue, errOp, needToNotify, caller, respQ, last, alast,
          nReq, nAdmin, binarySubs, blast, pc, poolHeap>>

(***************************************************************************)
(* datastoreBufferPool.c                                                   *)
(***************************************************************************)

\* allocateBuffers + datastoreBufPoolInit, every allocation succeeding.
\* buffers is the container (indices 0..poolSize-1); beyond holds what the
\* pool itself stored past the end of the container.
datastoreBufPoolInit(bufferSize, poolSize) ==
  [poolSize |-> poolSize,
   bufferSize |-> bufferSize,
   bufferInPool |-> bufferSize,
   buffers |-> [i \in 0..(poolSize - 1) |-> i + 1],
   beyond |-> << >>,
   valid |-> TRUE]

\* datastoreBufPoolInit with its k_malloc number failAt returning NULL, the
\* calls counted from 0: the pool structure, the container, then the buffers
\* in order; failAt = poolSize + 2 is the call in which none fails.  pool is
\* what the call returns, blocks the blocks it got from k_malloc and did not
\* free: the function returns NULL at the failure and calls no k_free.
datastoreBufPoolInitNoMemory(bufferSize, poolSize, failAt) ==
  IF failAt >= poolSize + 2
  THEN [pool |-> datastoreBufPoolInit(bufferSize, poolSize), blocks |-> poolSize + 2]
  ELSE [pool |-> NULLPOOL, blocks |-> failAt]

\* The elements a buffer of the pool has room for: allocateBuffers asks
\* k_malloc for pool->bufferSize bytes for each buffer.
BufferElements(p) == p.bufferSize \div SIZEOF_DATAPOINT_DATA

\* What a read of buffers[idx] yields: inside the container the stored
\* pointer; past its end what the pool stored there before, else any word.
ReadSlot(p, idx) ==
  IF idx < p.poolSize THEN {p.buffers[idx]}
  ELSE IF idx \in DOMAIN p.beyond THEN {p.beyond[idx]}
  ELSE {NULL, WILD}

WriteSlot(p, idx, b) ==
  IF idx < p.poolSize THEN [p EXCEPT !.buffers[idx] = b]
  ELSE [p EXCEPT !.beyond = (idx :> b) @@ @]

\* datastoreBufPoolGet: the outcomes [pool, buffer, oob] of one call.
datastoreBufPoolGet(p) ==
  IF ~p.valid THEN {[pool |-> p, buffer |-> NULL, oob |-> FALSE]}
  ELSE IF p.bufferInPool = 0 THEN {[pool |-> p, buffer |-> NULL, oob |-> FALSE]}
  ELSE LET idx == p.bufferInPool - 1 IN
       {[pool |-> [WriteSlot(p, idx, NULL) EXCEPT !.bufferInPool = idx],
         buffer |-> b,
         oob |-> idx >= p.poolSize] : b \in ReadSlot(p, idx)}

\* datastoreBufPoolReturn: the outcomes [pool, status, oob] of one call.
datastoreBufPoolReturn(p, buffer) ==
  IF ~p.valid THEN {[pool |-> p, status |-> "EINVAL", oob |-> FALSE]}
  ELSE LET idx == p.bufferInPool
           full == idx >= p.poolSize
           store == [pool |-> [WriteSlot(p, idx, buffer) EXCEPT !.bufferInPool = idx + 1],
                     status |-> "OK", oob |-> full]
           reject == [pool |-> p, status |-> "ENOSPC", oob |-> full]
       IN IF ~full THEN {store}
          ELSE {IF w # NULL THEN reject ELSE store : w \in ReadSlot(p, idx)}

(***************************************************************************)
(* datastoreUtil.c: the datapoint tables                                   *)
(***************************************************************************)

\* floats, uints, ints, multiStates, buttons: the k-th entry of every X-macro
\* list that fills them has default value k and the NVM flag.
InitialDatapoints ==
  [t \in Types |->
     [i \in 0..(FLOAT_DATAPOINT_COUNT - 1) |->
        [data |-> i, flags |-> DATAPOINT_FLAG_NVM_MASK]]]

datapointCounts(t) ==
  CASE t = 0 -> FLOAT_DATAPOINT_COUNT
    [] t = 1 -> UINT_DATAPOINT_COUNT
    [] t = 2 -> INT_DATAPOINT_COUNT
    [] t = 3 -> MULTI_STATE_DATAPOINT_COUNT
    [] OTHER -> BUTTON_DATAPOINT_COUNT

isDatapointIdAndValCountValid(datapointId, valCount, datapointCount) ==
  datapointId >= datapointCount /\ datapointId + valCount >= datapointCount

\* values[i] of a request whose caller staged the elements 0..valCount-1 of
\* its buffer: the other elements of the buffer hold what nobody set.
ValueAt(values, i) == IF i < Len(values) THEN values[i + 1] ELSE UNINIT

\* datastoreUtilReadData: [status, writes, touched]; writes[i] is what the
\* call stores in values[i], touched the table indices it reads.
datastoreUtilReadData(tbl, datapointType, datapointId, valCount) ==
  IF datapointType >= DATAPOINT_TYPE_COUNT
  THEN [status |-> "ENOTSUP", writes |-> << >>, touched |-> {}]
  ELSE IF isDatapointIdAndValCountValid(datapointId, valCount,
                                        datapointCounts(datapointType))
  THEN [status |-> "ENOSPC", writes |-> << >>, touched |-> {}]
  ELSE [status |-> "OK",
        writes |-> [i \in datapointId..(datapointId + valCount - 1) |->
                      IF i < datapointCounts(datapointType)
                      THEN tbl[datapointType][i].data ELSE UNINIT],
        touched |-> datapointId..(datapointId + valCount - 1)]

\* One round of the loop of datastoreUtilWriteData on index i, with v the
\* value of values[i].  An element outside the table is the memory behind
\* the array: the next table when the tables lie one after the other, or
\* memory the model does not hold.
WriteElem(s, t, i, v) ==
  LET vs == IF v = UNINIT THEN Words ELSE {v}
      set(tt, ii, w) ==
        IF s.tbl[tt][ii].data # w
        THEN [tbl |-> [s.tbl EXCEPT ![tt][ii].data = w], need |-> TRUE]
        ELSE s
  IN IF i < datapointCounts(t)
     THEN {set(t, i, w) : w \in vs}
     ELSE {s, [s EXCEPT !.need = TRUE]}
          \cup (IF t + 1 \in Types /\ i - datapointCounts(t) < datapointCounts(t + 1)
                THEN {set(t + 1, i - datapointCounts(t), w) : w \in vs}
                ELSE {})

RECURSIVE WriteLoop(_, _, _, _, _)
WriteLoop(s, t, i, end, values) ==
  IF i >= end THEN {s}
  ELSE UNION {WriteLoop(n, t, i + 1, end, values) :
                n \in WriteElem(s, t, i, ValueAt(values, i))}

\* datastoreUtilWriteData: the outcomes [status, tbl, need, touched].
datastoreUtilWriteData(tbl, datapointType, datapointId, values, valCount, need) ==
  IF datapointType >= DATAPOINT_TYPE_COUNT
  THEN {[status |-> "ENOTSUP", tbl |-> tbl, need |-> need, touched |-> {}]}
  ELSE IF isDatapointIdAndValCountValid(datapointId, valCount,
                                        datapointCounts(datapointType))
  THEN {[status |-> "ENOSPC", tbl |-> tbl, need |-> need, touched |-> {}]}
  ELSE {[status |-> "OK", tbl |-> n.tbl, need |-> n.need,
         touched |-> datapointId..(datapointId + valCount - 1)] :
          n \in WriteLoop([tbl |-> tbl, need |-> FALSE], datapointType,
                          datapointId, datapointId + valCount, values)}

(***************************************************************************)
(* datastoreUtil.c: the subscription registries                            *)
(***************************************************************************)
NoSubs == [entries |-> << >>, maxCount |-> 0, allocated |-> FALSE]

\* datastoreUtilAllocateFloatSubs and its four copies, k_malloc succeeding.
datastoreUtilAllocateSubs(reg, maxSubCount) ==
  [reg EXCEPT !.allocated = TRUE, !.maxCount = maxSubCount]

\* datastoreUtilAddFloatSub with the capacity test off by one: it fills the
\* slot the source leaves empty.
datastoreUtilAddSubFillsLastSlot(reg, sub) ==
  IF Len(reg.entries) + 1 > reg.maxCount
  THEN [status |-> "ENOBUFS", reg |-> reg]
  ELSE [status |-> "OK", reg |-> [reg EXCEPT !.entries = Append(@, sub)]]

\* datastoreUtilAddFloatSub and its copies; activeCount is Len(entries).
datastoreUtilAddSub(reg, sub) ==
  IF Len(reg.entries) + 1 >= reg.maxCount
  THEN [status |-> "ENOBUFS", reg |-> reg]
  ELSE [status |-> "OK", reg |-> [reg EXCEPT !.entries = Append(@, sub)]]

\* The index of the first entry whose callback is subCallback, 0 if none.
FirstMatch(entries, subCallback) ==
  IF \E i \in 1..Len(entries) : entries[i].callback = subCallback
  THEN CHOOSE i \in 1..Len(entries) :
         /\ entries[i].callback = subCallback
         /\ \A j \in 1..(i - 1) : entries[j].callback # subCallback
  ELSE 0

\* datastoreUtilSetFloatSubPauseState and its copies.
datastoreUtilSetSubPauseState(reg, subCallback, isPaused) ==
  IF subCallback = NULL THEN [status |-> "EINVAL", reg |-> reg]
  ELSE LET i == FirstMatch(reg.entries, subCallback) IN
       IF i = 0 THEN [status |-> "ESRCH", reg |-> reg]
       ELSE [status |-> "OK", reg |-> [reg EXCEPT !.entries[i].isPaused = isPaused]]

(***************************************************************************)
(* datastoreUtil.c: the binary registry.  entries[k + 1] is slot k of the  *)
(* array k_malloc returned; a slot nobody wrote holds UninitSub, whose     *)
(* isPaused no function of the registry reads before writing it.           *)
(***************************************************************************)
UninitSub == [datapointId |-> UNINIT, valCount |-> UNINIT, isPaused |-> FALSE,
              callback |-> UNINIT]

NoBinarySubs == [entries |-> << >>, maxCount |-> 0, activeCount |-> 0]

\* datastoreUtilAllocateBinarySubs, k_malloc succeeding.
datastoreUtilAllocateBinarySubs(reg, maxSubCount) ==
  [reg EXCEPT !.entries = [k \in 1..maxSubCount |-> UninitSub],
              !.maxCount = maxSubCount]

\* datastoreUtilAddBinarySub: activeCount is incremented before the copy, so
\* the subscription lands in slot activeCount + 1 of the old count.
datastoreUtilAddBinarySub(reg, sub) ==
  IF reg.activeCount + 1 >= reg.maxCount
  THEN [status |-> "ENOBUFS", reg |-> reg, slot |-> NULL]
  ELSE [status |-> "OK",
        reg |-> [reg EXCEPT !.activeCount = @ + 1,
                            !.entries[reg.activeCount + 2] = sub],
        slot |-> reg.activeCount + 1]

\* The loop of datastoreUtilSetBinarySubPauseState from slot i on: the
\* outcomes [reg, status, compared].  The callback of a slot nobody wrote is
\* an indeterminate value: it may or may not equal subCallback.
RECURSIVE SetBinaryLoop(_, _, _, _)
SetBinaryLoop(reg, subCallback, isPaused, i) ==
  IF i >= reg.activeCount
  THEN {[reg |-> reg, status |-> "ESRCH", compared |-> {}]}
  ELSE LET hit == [reg |-> [reg EXCEPT !.entries[i + 1].isPaused = isPaused],
                   status |-> "OK", compared |-> {i}]
           miss == {[o EXCEPT !.compared = @ \cup {i}] :
                      o \in SetBinaryLoop(reg, subCallback, isPaused, i + 1)}
       IN  IF reg.entries[i + 1].callback = UNINIT THEN {hit} \cup miss
           ELSE IF reg.entries[i + 1].callback = subCallback THEN {hit}
           ELSE miss

\* datastoreUtilSetBinarySubPauseState.
datastoreUtilSetBinarySubPauseState(reg, subCallback, isPaused) ==
  IF subCallback = NULL
  THEN {[reg |-> reg, status |-> "EINVAL", compared |-> {}]}
  ELSE SetBinaryLoop(reg, subCallback, isPaused, 0)

(***************************************************************************)
(* datastoreUtil.c: notification                                           *)
(***************************************************************************)
isFloatDatapointInSubRange(datapointId, sub) ==
  datapointId >= sub.datapointId /\ datapointId < sub.valCount

\* The buffer datastoreUtilNotify fills for a subscription: it copies from
\* floats whatever the type of the subscription is.
NotifyPayload(tbl, sub) ==
  [k \in 1..sub.valCount |->
     LET j == sub.datapointId + k - 1 IN
       IF j < FLOAT_DATAPOINT_COUNT THEN tbl[DATAPOINT_FLOAT][j].data ELSE UNINIT]

\* What a subscriber's callback does with the buffer it is handed: it gives
\* it back with datastoreReturnBuffer or keeps it, and returns 0 or an error.
CallbackOutcomes(pool, buffer) ==
  {[pool |-> pool, ret |-> r] : r \in {"OK", "ECB"}}
  \cup {[pool |-> o.pool, ret |-> r] :
          o \in datastoreBufPoolReturn(pool, buffer), r \in {"OK", "ECB"}}

\* The loop of datastoreUtilNotify from entry i (1-based) on: the outcomes
\* [pool, calls, err].  The function ends without a return statement, so a
\* loop that runs to its end hands run a value nobody set.
RECURSIVE NotifyLoop(_, _, _, _, _, _)
NotifyLoop(tbl, entries, i, datapointId, pool, calls) ==
  IF i > Len(entries) THEN {[pool |-> pool, calls |-> calls, err |-> "UNSET"]}
  ELSE IF isFloatDatapointInSubRange(datapointId, entries[i]) /\ ~entries[i].isPaused
  THEN UNION {
         IF g.buffer = NULL
         THEN {[pool |-> g.pool, calls |-> calls, err |-> "ENOSPC"]}
         ELSE UNION {
                LET c == Append(calls, [sub |-> i, callback |-> entries[i].callback,
                                        buffer |-> g.buffer,
                                        values |-> NotifyPayload(tbl, entries[i]),
                                        ret |-> cb.ret])
                IN IF cb.ret # "OK"
                   THEN {[pool |-> cb.pool, calls |-> c, err |-> cb.ret]}
                   ELSE NotifyLoop(tbl, entries, i + 1, datapointId, cb.pool, c)
                : cb \in CallbackOutcomes(g.pool, g.buffer)}
         : g \in datastoreBufPoolGet(pool)}
  ELSE NotifyLoop(tbl, entries, i + 1, datapointId, pool, calls)

datastoreUtilNotify(tbl, registry, pool, datapointType, datapointId) ==
  IF datapointType >= DATAPOINT_TYPE_COUNT
  THEN {[pool |-> pool, calls |-> << >>, err |-> "ENOTSUP"]}
  ELSE NotifyLoop(tbl, registry[datapointType].entries, 1, datapointId, pool, << >>)

\* datastoreUtilInitBufferPool: the sizes it hands to datastoreBufPoolInit.
MaxOf(S) == CHOOSE m \in S : \A x \in S : x <= m

datastoreUtilInitBufferPool(maxSubs) ==
  LET poolSize == MaxOf({maxSubs[t] : t \in DOMAIN maxSubs})
      bufSize == MaxOf({datapointCounts(t) : t \in 0..(DATAPOINT_TYPE_COUNT - 1)})
  IN datastoreBufPoolInit(bufSize + DATASTORE_MSG_COUNT, poolSize + DATASTORE_MSG_COUNT)

(***************************************************************************)
(* datastore.c: the service thread                                         *)
(***************************************************************************)
NoLast == [rid |-> 0, msgType |-> "NONE", datapointType |-> 0, datapointId |-> 0,
           valCount |-> 0, values |-> << >>, response |-> 0, status |-> "NONE",
           need |-> FALSE, notified |-> FALSE, calls |-> << >>, nerr |-> "NONE",
           touched |-> {}, writes |-> << >>]

\* The switch of run with a READ case that does not assign errOp: the
\* status it answers a Read with is the one of the round before.
RunOutcomesStaleErrOp(msg) ==
  LET base == [tbl |-> datapoints, pool |-> bufPool, errOp |-> errOp,
               need |-> needToNotify, notified |-> FALSE, calls |-> << >>,
               nerr |-> "NONE", touched |-> {}, writes |-> << >>]
  IN CASE msg.msgType = "READ" ->
            LET r == datastoreUtilReadData(datapoints, msg.datapointType,
                                           msg.datapointId, msg.valCount)
            IN {[base EXCEPT !.errOp = errOp, !.touched = r.touched,
                             !.writes = r.writes]}
       [] msg.msgType = "WRITE" ->
            UNION {
              IF w.status = "OK" /\ w.need
              THEN {[base EXCEPT !.tbl = w.tbl, !.errOp = w.status, !.need = w.need,
                                 !.touched = w.touched, !.notified = TRUE,
                                 !.pool = n.pool, !.calls = n.calls, !.nerr = n.err] :
                      n \in datastoreUtilNotify(w.tbl, subs, bufPool,
                                                msg.datapointType, msg.datapointId)}
              ELSE {[base EXCEPT !.tbl = w.tbl, !.errOp = w.status, !.need = w.need,
                                 !.touched = w.touched]}
              : w \in datastoreUtilWriteData(datapoints, msg.datapointType,
                                             msg.datapointId, msg.values,
                                             msg.valCount, needToNotify)}
       [] OTHER -> {base}

\* What the table access and the notification of one message do:
\* [tbl, pool, errOp, need, notified, calls, nerr, touched, writes].
RunOutcomes(msg) ==
  LET base == [tbl |-> datapoints, pool |-> bufPool, errOp |-> errOp,
               need |-> needToNotify, notified |-> FALSE, calls |-> << >>,
               nerr |-> "NONE", touched |-> {}, writes |-> << >>]
  IN CASE msg.msgType = "READ" ->
            LET r == datastoreUtilReadData(datapoints, msg.datapointType,
                                           msg.datapointId, msg.valCount)
            IN {[base EXCEPT !.errOp = r.status, !.touched = r.touched,
                             !.writes = r.writes]}
       [] msg.msgType = "WRITE" ->
            UNION {
              IF w.status = "OK" /\ w.need
              THEN {[base EXCEPT !.tbl = w.tbl, !.errOp = w.status, !.need = w.need,
                                 !.touched = w.touched, !.notified = TRUE,
                                 !.pool = n.pool, !.calls = n.calls, !.nerr = n.err] :
                      n \in datastoreUtilNotify(w.tbl, subs, bufPool,
                                                msg.datapointType, msg.datapointId)}
              ELSE {[base EXCEPT !.tbl = w.tbl, !.errOp = w.status, !.need = w.need,
                                 !.touched = w.touched]}
              : w \in datastoreUtilWriteData(datapoints, msg.datapointType,
                                             msg.datapointId, msg.values,
                                             msg.valCount, needToNotify)}
       [] OTHER -> {base}

\* The buffer of a waiting reader after the service stored writes in it: the
\* wrapper looks at the elements 0..valCount-1 only.
StoreInBuffer(buf, writes) ==
  [k \in 1..Len(buf) |-> IF (k - 1) \in DOMAIN writes THEN writes[k - 1] ELSE buf[k]]

\* The loop of run taking the message that was queued last instead of the
\* one at the head of datastoreQueue.
runNewestFirst ==
  /\ thread = "created"
  /\ datastoreQueue # << >>
  /\ LET msg == datastoreQueue[Len(datastoreQueue)] IN
     \E o \in RunOutcomes(msg) :
       /\ datastoreQueue' = SubSeq(datastoreQueue, 1, Len(datastoreQueue) - 1)
       /\ datapoints' = o.tbl
       /\ bufPool' = o.pool
       /\ errOp' = o.errOp
       /\ needToNotify' = o.need
       /\ caller' = [c \in Callers |->
                       IF caller[c].pc = "wait" /\ caller[c].rid = msg.rid
                          /\ msg.msgType = "READ"
                       THEN [caller[c] EXCEPT !.buf = StoreInBuffer(@, o.writes)]
                       ELSE caller[c]]
       /\ respQ' = IF msg.response # NULL
                      /\ Len(respQ[msg.response]) < DATASTORE_MSG_COUNT
                   THEN [respQ EXCEPT ![msg.response] = Append(@, o.errOp)]
                   ELSE respQ
       /\ last' = [rid |-> msg.rid, msgType |-> msg.msgType,
                   datapointType |-> msg.datapointType,
                   datapointId |-> msg.datapointId, valCount |-> msg.valCount,
                   values |-> msg.values, response |-> msg.response,
                   status |-> o.errOp, need |-> o.need, notified |-> o.notified,
                   calls |-> o.calls, nerr |-> o.nerr, touched |-> o.touched,
                   writes |-> o.writes]
  /\ UNCHANGED <<poolHeap, pc, binarySubs, blast, held, plast, subs, thread, osFree, alast, nReq, nAdmin>>

\* The loop of run with a default case that ends the thread: a message
\* whose type is neither DATASTORE_READ nor DATASTORE_WRITE is the last one
\* the service takes.
runStopsOnUnknown ==
  /\ thread = "created"
  /\ datastoreQueue # << >>
  /\ LET msg == Head(datastoreQueue) IN
     \E o \in RunOutcomes(msg) :
       /\ datastoreQueue' = Tail(datastoreQueue)
       /\ datapoints' = o.tbl
       /\ bufPool' = o.pool
       /\ errOp' = o.errOp
       /\ needToNotify' = o.need
       /\ thread' = IF msg.msgType \in {"READ", "WRITE"} THEN thread ELSE "stopped"
       /\ caller' = [c \in Callers |->
                       IF caller[c].pc = "wait" /\ caller[c].rid = msg.rid
                          /\ msg.msgType = "READ"
                       THEN [caller[c] EXCEPT !.buf = StoreInBuffer(@, o.writes)]
                       ELSE caller[c]]
       /\ respQ' = IF msg.response # NULL
                      /\ Len(respQ[msg.response]) < DATASTORE_MSG_COUNT
                   THEN [respQ EXCEPT ![msg.response] = Append(@, o.errOp)]
                   ELSE respQ
       /\ last' = [rid |-> msg.rid, msgType |-> msg.msgType,
                   datapointType |-> msg.datapointType,
                   datapointId |-> msg.datapointId, valCount |-> msg.valCount,
                   values |-> msg.values, response |-> msg.response,
                   status |-> o.errOp, need |-> o.need, notified |-> o.notified,
                   calls |-> o.calls, nerr |-> o.nerr, touched |-> o.touched,
                   writes |-> o.writes]
  /\ UNCHANGED <<poolHeap, pc, binarySubs, blast, held, plast, subs, osFree, alast, nReq, nAdmin>>

\* The loop of run taking a message only when it is a Read: a Write at the
\* head of datastoreQueue stays there.
runOnlyReads ==
  /\ datastoreQueue # << >> => Head(datastoreQueue).msgType = "READ"
  /\ thread = "created"
  /\ datastoreQueue # << >>
  /\ LET msg == Head(datastoreQueue) IN
     \E o \in RunOutcomes(msg) :
       /\ datastoreQueue' = Tail(datastoreQueue)
       /\ datapoints' = o.tbl
       /\ bufPool' = o.pool
       /\ errOp' = o.errOp
       /\ needToNotify' = o.need
       /\ caller' = [c \in Callers |->
                       IF caller[c].pc = "wait" /\ caller[c].rid = msg.rid
                          /\ msg.msgType = "READ"
                       THEN [caller[c] EXCEPT !.buf = StoreInBuffer(@, o.writes)]
                       ELSE caller[c]]
       /\ respQ' = IF msg.response # NULL
                      /\ Len(respQ[msg.response]) < DATASTORE_MSG_COUNT
                   THEN [respQ EXCEPT ![msg.response] = Append(@, o.errOp)]
                   ELSE respQ
       /\ last' = [rid |-> msg.rid, msgType |-> msg.msgType,
                   datapointType |-> msg.datapointType,
                   datapointId |-> msg.datapointId, valCount |-> msg.valCount,
                   values |-> msg.values, response |-> msg.response,
                   status |-> o.errOp, need |-> o.need, notified |-> o.notified,
                   calls |-> o.calls, nerr |-> o.nerr, touched |-> o.touched,
                   writes |-> o.writes]
  /\ UNCHANGED <<poolHeap, pc, binarySubs, blast, held, plast, subs, thread, osFree, alast, nReq, nAdmin>>

\* One round of the loop of run: take a message, serve it, answer it.
run ==
  /\ thread = "created"
  /\ datastoreQueue # << >>
  /\ LET msg == Head(datastoreQueue) IN
     \E o \in RunOutcomes(msg) :
       /\ datastoreQueue' = Tail(datastoreQueue)
       /\ datapoints' = o.tbl
       /\ bufPool' = o.pool
       /\ errOp' = o.errOp
       /\ needToNotify' = o.need
       /\ caller' = [c \in Callers |->
                       IF caller[c].pc = "wait" /\ caller[c].rid = msg.rid
                          /\ msg.msgType = "READ"
                       THEN [caller[c] EXCEPT !.buf = StoreInBuffer(@, o.writes)]
                       ELSE caller[c]]
       /\ respQ' = IF msg.response # NULL
                      /\ Len(respQ[msg.response]) < DATASTORE_MSG_COUNT
                   THEN [respQ EXCEPT ![msg.response] = Append(@, o.errOp)]
                   ELSE respQ
       /\ last' = [rid |-> msg.rid, msgType |-> msg.msgType,
                   datapointType |-> msg.datapointType,
                   datapointId |-> msg.datapointId, valCount |-> msg.valCount,
                   values |-> msg.values, response |-> msg.response,
                   status |-> o.errOp, need |-> o.need, notified |-> o.notified,
                   calls |-> o.calls, nerr |-> o.nerr, touched |-> o.touched,
                   writes |-> o.writes]
  /\ UNCHANGED <<poolHeap, pc, binarySubs, blast, held, plast, subs, thread, osFree, alast, nReq, nAdmin>>

\* datastoreInit, every allocation succeeding: the registries, the buffer
\* pool, the wrappers' memory pool and the service thread.
datastoreInit(maxSubs, maxBinarySubs) ==
  /\ thread = "none"
  /\ binarySubs' = datastoreUtilAllocateBinarySubs(binarySubs, maxBinarySubs)
  /\ subs' = [t \in Types |-> datastoreUtilAllocateSubs(subs[t], maxSubs[t])]
  /\ bufPool' = datastoreUtilInitBufferPool(maxSubs)
  /\ poolHeap' = poolHeap + bufPool'.poolSize + 2
  /\ osFree' = DATASTORE_BUFFER_COUNT
  /\ thread' = "created"
  /\ UNCHANGED <<pc, blast, held, plast, datapoints, datastoreQueue, errOp, needToNotify,
                 caller, respQ, last, alast, nReq, nAdmin>>

\* datastoreInit with the allocation of step failedStep returning NULL: step
\* 0 is the binary registry, step t + 1 the registry of type t, the last
\* step osMemoryPoolNew.  A registry allocation that fails ends the call
\* with -ENOSPC and keeps what was allocated before it; the result of
\* osMemoryPoolNew is not looked at, the thread is created and the call
\* returns what k_thread_name_set returns.
PoolStep == MaxType + 2

datastoreInitNoMemory(maxSubs, maxBinarySubs, failedStep) ==
  /\ thread = "none"
  /\ binarySubs' = IF failedStep = 0 THEN binarySubs
                   ELSE datastoreUtilAllocateBinarySubs(binarySubs, maxBinarySubs)
  /\ subs' = [t \in Types |->
                IF failedStep = 0 \/ t + 1 >= failedStep THEN subs[t]
                ELSE datastoreUtilAllocateSubs(subs[t], maxSubs[t])]
  /\ IF failedStep = PoolStep
     THEN /\ bufPool' = datastoreUtilInitBufferPool(maxSubs)
          /\ poolHeap' = poolHeap + bufPool'.poolSize + 2
          /\ osFree' = 0
          /\ thread' = "created"
          /\ alast' = [op |-> "init", datapointType |-> failedStep, callback |-> NULL,
                       status |-> "OK"]
     ELSE /\ alast' = [op |-> "init", datapointType |-> failedStep, callback |-> NULL,
                       status |-> "ENOSPC"]
          /\ UNCHANGED <<bufPool, osFree, thread, poolHeap>>
  /\ UNCHANGED <<pc, blast, held, plast, datapoints, datastoreQueue, errOp, needToNotify,
                 caller, respQ, last, nReq, nAdmin>>

(***************************************************************************)
(* datastore.c: the calls of the other threads                             *)
(***************************************************************************)
NoCall == [pc |-> "idle", op |-> "NONE", datapointType |-> 0, datapointId |-> 0,
           valCount |-> 0, values |-> << >>, response |-> FALSE, rid |-> 0,
           status |-> "NONE", buf |-> << >>, out |-> << >>]

\* datastoreReadFloat and its copies up to the wait in datastoreRead.
ReadCall(c, t, id, n) ==
  /\ caller[c].pc = "idle"
  /\ nReq < MaxRequests
  /\ nReq' = nReq + 1
  /\ LET call == [NoCall EXCEPT !.op = "READ", !.datapointType = t,
                                !.datapointId = id, !.valCount = n,
                                !.response = TRUE, !.rid = nReq + 1,
                                !.buf = [k \in 1..n |-> UNINIT]]
     IN IF osFree = 0
        THEN /\ caller' = [caller EXCEPT ![c] = [call EXCEPT !.status = "ENOSPC"]]
             /\ UNCHANGED <<osFree, datastoreQueue>>
        ELSE /\ osFree' = osFree - 1
             /\ IF Len(datastoreQueue) >= DATASTORE_MSG_COUNT
                THEN /\ caller' = [caller EXCEPT ![c] = [call EXCEPT !.status = "ENOMSG"]]
                     /\ UNCHANGED datastoreQueue
                ELSE /\ caller' = [caller EXCEPT ![c] = [call EXCEPT !.pc = "wait"]]
                     /\ datastoreQueue' = Append(datastoreQueue,
                          [msgType |-> "READ", datapointType |-> t, datapointId |-> id,
                           values |-> << >>, valCount |-> n, response |-> c,
                           rid |-> nReq + 1])
  /\ UNCHANGED <<poolHeap, pc, binarySubs, blast, bufPool, held, plast, datapoints, subs, thread, errOp,
                 needToNotify, respQ, last, alast, nAdmin>>

\* datastoreWriteFloat storing the first value in the table itself before
\* it queues the request, on the thread of its caller.
WriteCallWritesTable(c, t, id, vals, withResponse) ==
  /\ caller[c].pc = "idle"
  /\ nReq < MaxRequests
  /\ nReq' = nReq + 1
  /\ datapoints' = IF osFree # 0 /\ id < datapointCounts(t)
                   THEN [datapoints EXCEPT ![t][id].data = vals[1]]
                   ELSE datapoints
  /\ LET call == [NoCall EXCEPT !.op = "WRITE", !.datapointType = t,
                                !.datapointId = id, !.valCount = Len(vals),
                                !.values = vals, !.response = withResponse,
                                !.rid = nReq + 1]
     IN IF osFree = 0
        THEN /\ caller' = [caller EXCEPT ![c] = [call EXCEPT !.status = "ENOSPC"]]
             /\ UNCHANGED <<osFree, datastoreQueue>>
        ELSE /\ osFree' = osFree - 1
             /\ IF Len(datastoreQueue) >= DATASTORE_MSG_COUNT
                THEN /\ caller' = [caller EXCEPT ![c] = [call EXCEPT !.status = "ENOMSG"]]
                     /\ UNCHANGED datastoreQueue
                ELSE /\ caller' = [caller EXCEPT ![c] =
                                     IF withResponse THEN [call EXCEPT !.pc = "wait"]
                                     ELSE [call EXCEPT !.status = "OK"]]
                     /\ datastoreQueue' = Append(datastoreQueue,
                          [msgType |-> "WRITE", datapointType |-> t, datapointId |-> id,
                           values |-> vals, valCount |-> Len(vals),
                           response |-> IF withResponse THEN c ELSE NULL,
                           rid |-> nReq + 1])
  /\ UNCHANGED <<poolHeap, pc, binarySubs, blast, bufPool, held, plast, subs, thread, errOp,
                 needToNotify, respQ, last, alast, nAdmin>>

\* datastoreWriteFloat and its copies up to the wait in datastoreWrite; a
\* write without a response queue returns at once.
WriteCall(c, t, id, vals, withResponse) ==
  /\ caller[c].pc = "idle"
  /\ nReq < MaxRequests
  /\ nReq' = nReq + 1
  /\ LET call == [NoCall EXCEPT !.op = "WRITE", !.datapointType = t,
                                !.datapointId = id, !.valCount = Len(vals),
                                !.values = vals, !.response = withResponse,
                                !.rid = nReq + 1]
     IN IF osFree = 0
        THEN /\ caller' = [caller EXCEPT ![c] = [call EXCEPT !.status = "ENOSPC"]]
             /\ UNCHANGED <<osFree, datastoreQueue>>
        ELSE /\ osFree' = osFree - 1
             /\ IF Len(datastoreQueue) >= DATASTORE_MSG_COUNT
                THEN /\ caller' = [caller EXCEPT ![c] = [call EXCEPT !.status = "ENOMSG"]]
                     /\ UNCHANGED datastoreQueue
                ELSE /\ caller' = [caller EXCEPT ![c] =
                                     IF withResponse THEN [call EXCEPT !.pc = "wait"]
                                     ELSE [call EXCEPT !.status = "OK"]]
                     /\ datastoreQueue' = Append(datastoreQueue,
                          [msgType |-> "WRITE", datapointType |-> t, datapointId |-> id,
                           values |-> vals, valCount |-> Len(vals),
                           response |-> IF withResponse THEN c ELSE NULL,
                           rid |-> nReq + 1])
  /\ UNCHANGED <<poolHeap, pc, binarySubs, blast, bufPool, held, plast, datapoints, subs, thread, errOp,
                 needToNotify, respQ, last, alast, nAdmin>>

(***************************************************************************)
(* datastore.c: datastoreRead and datastoreWrite called with a buffer of   *)
(* the caller, without a wrapper.  k_msgq_put with K_NO_WAIT returns       *)
(* -ENOMSG at once when the queue holds DATASTORE_MSG_COUNT messages.      *)
(***************************************************************************)
MaxFill == DATASTORE_MSG_COUNT + MaxActive    \* such calls in a behaviour

\* datastoreWrite with a k_msgq_put that finds room in a full queue.
datastoreWriteNoLimit(c, t, id, vals, withResponse) ==
  /\ caller[c].pc = "idle"
  /\ nReq < MaxFill
  /\ nReq' = nReq + 1
  /\ LET call == [NoCall EXCEPT !.op = "datastoreWrite", !.datapointType = t,
                                !.datapointId = id, !.valCount = Len(vals),
                                !.values = vals, !.response = withResponse,
                                !.rid = nReq + 1]
     IN /\ caller' = [caller EXCEPT ![c] =
                        IF withResponse THEN [call EXCEPT !.pc = "wait"]
                        ELSE [call EXCEPT !.status = "OK"]]
        /\ datastoreQueue' = Append(datastoreQueue,
             [msgType |-> "WRITE", datapointType |-> t, datapointId |-> id,
              values |-> vals, valCount |-> Len(vals),
              response |-> IF withResponse THEN c ELSE NULL, rid |-> nReq + 1])
  /\ UNCHANGED <<poolHeap, pc, binarySubs, blast, bufPool, held, plast, datapoints, subs,
                 thread, osFree, errOp, needToNotify, respQ, last, alast, nAdmin>>

\* datastoreWrite up to its wait; without a response queue it returns
\* resStatus, which is 0.
datastoreWrite(c, t, id, vals, withResponse) ==
  /\ caller[c].pc = "idle"
  /\ nReq < MaxFill
  /\ nReq' = nReq + 1
  /\ LET call == [NoCall EXCEPT !.op = "datastoreWrite", !.datapointType = t,
                                !.datapointId = id, !.valCount = Len(vals),
                                !.values = vals, !.response = withResponse,
                                !.rid = nReq + 1]
     IN IF Len(datastoreQueue) >= DATASTORE_MSG_COUNT
        THEN /\ caller' = [caller EXCEPT ![c] = [call EXCEPT !.status = "ENOMSG"]]
             /\ UNCHANGED datastoreQueue
        ELSE /\ caller' = [caller EXCEPT ![c] =
                             IF withResponse THEN [call EXCEPT !.pc = "wait"]
                             ELSE [call EXCEPT !.status = "OK"]]
             /\ datastoreQueue' = Append(datastoreQueue,
                  [msgType |-> "WRITE", datapointType |-> t, datapointId |-> id,
                   values |-> vals, valCount |-> Len(vals),
                   response |-> IF withResponse THEN c ELSE NULL, rid |-> nReq + 1])
  /\ UNCHANGED <<poolHeap, pc, binarySubs, blast, bufPool, held, plast, datapoints, subs,
                 thread, osFree, errOp, needToNotify, respQ, last, alast, nAdmin>>

\* datastoreRead up to its wait.
datastoreRead(c, t, id, n) ==
  /\ caller[c].pc = "idle"
  /\ nReq < MaxFill
  /\ nReq' = nReq + 1
  /\ LET call == [NoCall EXCEPT !.op = "datastoreRead", !.datapointType = t,
                                !.datapointId = id, !.valCount = n,
                                !.response = TRUE, !.rid = nReq + 1,
                                !.buf = [k \in 1..n |-> UNINIT]]
     IN IF Len(datastoreQueue) >= DATASTORE_MSG_COUNT
        THEN /\ caller' = [caller EXCEPT ![c] = [call EXCEPT !.status = "ENOMSG"]]
             /\ UNCHANGED datastoreQueue
        ELSE /\ caller' = [caller EXCEPT ![c] = [call EXCEPT !.pc = "wait"]]
             /\ datastoreQueue' = Append(datastoreQueue,
                  [msgType |-> "READ", datapointType |-> t, datapointId |-> id,
                   values |-> << >>, valCount |-> n, response |-> c,
                   rid |-> nReq + 1])
  /\ UNCHANGED <<poolHeap, pc, binarySubs, blast, bufPool, held, plast, datapoints, subs,
                 thread, osFree, errOp, needToNotify, respQ, last, alast, nAdmin>>

\* What a copy of the buffer buf can yield: an element nobody set is any word.
CopyOut(buf) ==
  {o \in [1..Len(buf) -> Words \cup {buf[k] : k \in 1..Len(buf)}] :
     \A k \in 1..Len(buf) : IF buf[k] = UNINIT THEN o[k] \in Words ELSE o[k] = buf[k]}

\* k_msgq_get on the response queue hands the call a status: the rest of
\* datastoreRead/datastoreWrite and of the wrapper.  A read that got a
\* status >= 0 copies its buffer out and frees it; no other path frees.
Respond(c) ==
  /\ caller[c].pc = "wait"
  /\ respQ[c] # << >>
  /\ respQ' = [respQ EXCEPT ![c] = Tail(@)]
  /\ LET st == Head(respQ[c]) IN
       IF caller[c].op = "READ" /\ st = "OK"
       THEN /\ \E o \in CopyOut(caller[c].buf) :
                 caller' = [caller EXCEPT ![c].pc = "idle", ![c].status = st,
                                          ![c].out = o]
            /\ osFree' = osFree + 1
       ELSE /\ caller' = [caller EXCEPT ![c].pc = "idle", ![c].status = st]
            /\ UNCHANGED osFree
  /\ UNCHANGED <<poolHeap, pc, binarySubs, blast, bufPool, held, plast, datapoints, subs, thread, datastoreQueue,
                 errOp, needToNotify, last, alast, nReq, nAdmin>>

\* k_msgq_get on the response queue with K_FOREVER in place of the timeout:
\* the call stays where it is while the queue is empty.
WaitForever(c) ==
  /\ caller[c].pc = "wait"
  /\ respQ[c] = << >>
  /\ UNCHANGED vars

\* k_msgq_get on the response queue times out.
Timeout(c) ==
  /\ caller[c].pc = "wait"
  /\ respQ[c] = << >>
  /\ caller' = [caller EXCEPT ![c].pc = "idle", ![c].status = "EAGAIN"]
  /\ UNCHANGED <<poolHeap, pc, binarySubs, blast, bufPool, held, plast, datapoints, subs, thread, osFree,
                 datastoreQueue, errOp, needToNotify, respQ, last, alast, nReq,
                 nAdmin>>

\* datastoreSubscribeFloat and its copies.
Subscribe(t, sub) ==
  /\ nAdmin < MaxAdmin
  /\ nAdmin' = nAdmin + 1
  /\ LET r == datastoreUtilAddSub(subs[t], sub) IN
       /\ subs' = [subs EXCEPT ![t] = r.reg]
       /\ alast' = [op |-> "subscribe", datapointType |-> t,
                    callback |-> sub.callback, status |-> r.status]
  /\ UNCHANGED <<poolHeap, pc, binarySubs, blast, bufPool, held, plast, datapoints, thread, osFree, datastoreQueue,
                 errOp, needToNotify, caller, respQ, last, nReq>>

\* datastorePauseSubFloat, datastoreUnpauseSubFloat and their copies.
SetPaused(t, cb, isPaused) ==
  /\ nAdmin < MaxAdmin
  /\ nAdmin' = nAdmin + 1
  /\ LET r == datastoreUtilSetSubPauseState(subs[t], cb, isPaused) IN
       /\ subs' = [subs EXCEPT ![t] = r.reg]
       /\ alast' = [op |-> IF isPaused THEN "pause" ELSE "unpause",
                    datapointType |-> t, callback |-> cb, status |-> r.status]
  /\ UNCHANGED <<poolHeap, pc, binarySubs, blast, bufPool, held, plast, datapoints, thread, osFree, datastoreQueue,
                 errOp, needToNotify, caller, respQ, last, nReq>>

\* datastoreSubscribeBinary, datastorePauseSubBinary and
\* datastoreUnpauseSubBinary.  blast keeps the slot the subscription went to
\* and the slots the pause loop compared.
NoBinaryCall == [op |-> "none", callback |-> NULL, status |-> "NONE", slot |-> NULL,
                 compared |-> {}]

SubscribeBinary(sub) ==
  /\ nAdmin < MaxAdmin
  /\ nAdmin' = nAdmin + 1
  /\ LET r == datastoreUtilAddBinarySub(binarySubs, sub) IN
       /\ binarySubs' = r.reg
       /\ blast' = [op |-> "subscribe", callback |-> sub.callback,
                    status |-> r.status, slot |-> r.slot, compared |-> {}]
  /\ UNCHANGED <<poolHeap, pc, bufPool, held, plast, datapoints, subs, thread, osFree,
                 datastoreQueue, errOp, needToNotify, caller, respQ, last, alast,
                 nReq>>

SetPausedBinary(cb, isPaused) ==
  /\ nAdmin < MaxAdmin
  /\ nAdmin' = nAdmin + 1
  /\ \E o \in datastoreUtilSetBinarySubPauseState(binarySubs, cb, isPaused) :
       /\ binarySubs' = o.reg
       /\ blast' = [op |-> IF isPaused THEN "pause" ELSE "unpause", callback |-> cb,
                    status |-> o.status, slot |-> NULL, compared |-> o.compared]
  /\ UNCHANGED <<poolHeap, pc, bufPool, held, plast, datapoints, subs, thread, osFree,
                 datastoreQueue, errOp, needToNotify, caller, respQ, last, alast,
                 nReq>>

(***************************************************************************)
(* The service with its callers.                                           *)
(***************************************************************************)
Subscriptions ==
  [datapointId : 0..MaxSubId, valCount : 1..MaxSubCount, isPaused : {FALSE},
   callback : Callbacks]

StagedValues == UNION {[1..n -> Val] : n \in 1..MaxCount}

\* No thread is inside a registry function and run is not notifying.
NoPc == [admin |-> [at |-> "idle", datapointType |-> 0, sub |-> UninitSub,
                    callback |-> NULL, isPaused |-> FALSE],
         actor |-> [at |-> "idle", msg |-> [rid |-> 0], touched |-> {}]]

Init ==
  /\ bufPool = NULLPOOL
  /\ held = {}
  /\ plast = [op |-> "none", buffer |-> NULL, status |-> "OK", oob |-> FALSE,
              outstanding |-> 0, mine |-> TRUE]
  /\ datapoints = InitialDatapoints
  /\ subs = [t \in Types |-> NoSubs]
  /\ thread = "none"
  /\ osFree = 0
  /\ datastoreQueue = << >>
  /\ errOp = "UNSET"
  /\ needToNotify = FALSE
  /\ caller = [c \in Callers |-> NoCall]
  /\ respQ = [c \in Callers |-> << >>]
  /\ last = NoLast
  /\ alast = [op |-> "none", datapointType |-> 0, callback |-> NULL, status |-> "NONE"]
  /\ nReq = 0
  /\ nAdmin = 0
  /\ binarySubs = NoBinarySubs
  /\ blast = NoBinaryCall
  /\ pc = NoPc
  /\ poolHeap = 0

\* datastoreInit with room for MaxSubCap subscriptions of every type.
Start == datastoreInit([t \in Types |-> MaxSubCap], MaxSubCap)

\* One thread reads and writes; nobody subscribes.
TableNext ==
  \/ Start
  \/ run
  \/ \E c \in ActiveCallers, t \in Types, id \in 0..FLOAT_DATAPOINT_COUNT,
        n \in 1..MaxCount :
       ReadCall(c, t, id, n)
  \/ \E c \in ActiveCallers, t \in Types, id \in 0..FLOAT_DATAPOINT_COUNT,
        vals \in StagedValues, r \in BOOLEAN :
       WriteCall(c, t, id, vals, r)
  \/ \E c \in ActiveCallers : Respond(c)
  \/ \E c \in ActiveCallers : Timeout(c)

SpecTable == Init /\ [][TableNext]_vars

\* A write with a response queue, of the few a behaviour with subscriptions
\* holds.
NotifyWrite(c, t, id, vals) ==
  /\ nReq < MaxNotifyWrites
  /\ WriteCall(c, t, id, vals, TRUE)

\* The subscribe, pause and unpause calls of a behaviour with a write.
NotifySubscribe(t, sub) ==
  /\ nAdmin < MaxNotifyAdmin
  /\ Subscribe(t, sub)

NotifySetPaused(t, cb, isPaused) ==
  /\ nAdmin < MaxNotifyAdmin
  /\ SetPaused(t, cb, isPaused)

\* Threads subscribe, pause and unpause while one thread writes.
NotifyNext ==
  \/ Start
  \/ run
  \/ \E t \in Types, sub \in Subscriptions : NotifySubscribe(t, sub)
  \/ \E t \in Types, cb \in Callbacks, p \in BOOLEAN : NotifySetPaused(t, cb, p)
  \/ \E c \in ActiveCallers, t \in Types, id \in 0..(MaxSubId + 1),
        vals \in StagedValues :
       NotifyWrite(c, t, id, vals)
  \/ \E c \in ActiveCallers : Respond(c)
  \/ \E c \in ActiveCallers : Timeout(c)

SpecNotify == Init /\ [][NotifyNext]_vars

(***************************************************************************)
(* Several threads read and write datapoint 0 of the float table, each     *)
(* with its own response queue; nobody subscribes.                         *)
(***************************************************************************)
QueueNext ==
  \/ Start
  \/ run
  \/ \E c \in Callers : ReadCall(c, DATAPOINT_FLOAT, 0, 1)
  \/ \E c \in Callers, vals \in [1..1 -> Val], r \in BOOLEAN :
       WriteCall(c, DATAPOINT_FLOAT, 0, vals, r)
  \/ \E c \in Callers : Respond(c)
  \/ \E c \in Callers : Timeout(c)

SpecQueue == Init /\ [][QueueNext]_vars

\* k_msgq_get returns when a status is there or DATASTORE_RESPONSE_TIMEOUT
\* has passed: a thread that waits does not wait forever.  Nothing is
\* assumed of the service thread and of the other threads.
SpecQueueLive ==
  SpecQueue /\ \A c \in Callers : WF_vars(Respond(c) \/ Timeout(c))

\* The service thread is given time again and again: a round of run that
\* can be made is made.  Nothing is assumed of the other threads.
SpecServe == SpecQueue /\ WF_vars(run)

(***************************************************************************)
(* datastoreQueue is a queue any code of the image can put a message in.   *)
(* Beside the read and write calls of two threads, a thread puts messages  *)
(* whose msgType is neither DATASTORE_READ nor DATASTORE_WRITE, with or    *)
(* without a response queue.                                               *)
(***************************************************************************)
PutUnknown(c, withResponse) ==
  /\ thread = "created"
  /\ nReq < MaxRequests
  /\ nReq' = nReq + 1
  /\ Len(datastoreQueue) < DATASTORE_MSG_COUNT
  /\ datastoreQueue' = Append(datastoreQueue,
       [msgType |-> "OTHER", datapointType |-> DATAPOINT_FLOAT, datapointId |-> 0,
        values |-> << >>, valCount |-> 1,
        response |-> IF withResponse THEN c ELSE NULL, rid |-> nReq + 1])
  /\ UNCHANGED <<poolHeap, pc, binarySubs, blast, bufPool, held, plast, datapoints, subs, thread,
                 osFree, errOp, needToNotify, caller, respQ, last, alast, nAdmin>>

UnknownNext ==
  \/ QueueNext
  \/ \E c \in Callers, r \in BOOLEAN : PutUnknown(c, r)

SpecUnknown == Init /\ [][UnknownNext]_vars

(***************************************************************************)
(* The registry calls and the notification in steps.  A subscribe, pause   *)
(* or unpause call runs on the thread of its caller, from the entry of the *)
(* registry function to its return; the notification runs on the service   *)
(* thread, from the call of datastoreUtilNotify to its return.  Between    *)
(* the two ends of either the other thread may run: the service thread is  *)
(* preemptible and no function of the registry takes a lock.               *)
(***************************************************************************)

\* A thread enters datastoreUtilAddFloatSub (or a copy) with sub.
SubscribeEnter(t, sub) ==
  /\ thread = "created"
  /\ pc.admin.at = "idle"
  /\ nAdmin < MaxNotifyAdmin
  /\ pc' = [pc EXCEPT !.admin = [at |-> "subscribe", datapointType |-> t,
                                 sub |-> sub, callback |-> sub.callback,
                                 isPaused |-> FALSE]]
  /\ UNCHANGED <<poolHeap, bufPool, held, plast, datapoints, subs, thread, osFree,
                 datastoreQueue, errOp, needToNotify, caller, respQ, last, alast,
                 nReq, nAdmin, binarySubs, blast>>

\* A thread enters datastoreUtilSetFloatSubPauseState (or a copy).
SetPausedEnter(t, cb, isPaused) ==
  /\ thread = "created"
  /\ pc.admin.at = "idle"
  /\ nAdmin < MaxNotifyAdmin
  /\ pc' = [pc EXCEPT !.admin = [at |-> IF isPaused THEN "pause" ELSE "unpause",
                                 datapointType |-> t, sub |-> UninitSub,
                                 callback |-> cb, isPaused |-> isPaused]]
  /\ UNCHANGED <<poolHeap, bufPool, held, plast, datapoints, subs, thread, osFree,
                 datastoreQueue, errOp, needToNotify, caller, respQ, last, alast,
                 nReq, nAdmin, binarySubs, blast>>

\* The registry function the thread is in does its work and returns.
AdminLeave ==
  /\ pc.admin.at # "idle"
  /\ LET a == pc.admin
         r == IF a.at = "subscribe"
              THEN datastoreUtilAddSub(subs[a.datapointType], a.sub)
              ELSE datastoreUtilSetSubPauseState(subs[a.datapointType], a.callback,
                                                 a.isPaused)
     IN /\ subs' = [subs EXCEPT ![a.datapointType] = r.reg]
        /\ alast' = [op |-> a.at, datapointType |-> a.datapointType,
                     callback |-> a.callback, status |-> r.status]
  /\ nAdmin' = nAdmin + 1
  /\ pc' = [pc EXCEPT !.admin = NoPc.admin]
  /\ UNCHANGED <<poolHeap, bufPool, held, plast, datapoints, thread, osFree, datastoreQueue,
                 errOp, needToNotify, caller, respQ, last, nReq, binarySubs, blast>>

\* run takes a Write that changes data, stores it and calls
\* datastoreUtilNotify.
NotifyEnter ==
  /\ thread = "created"
  /\ pc.actor.at = "idle"
  /\ datastoreQueue # << >>
  /\ LET msg == Head(datastoreQueue) IN
       /\ msg.msgType = "WRITE"
       /\ \E w \in datastoreUtilWriteData(datapoints, msg.datapointType,
                                          msg.datapointId, msg.values,
                                          msg.valCount, needToNotify) :
            /\ w.status = "OK"
            /\ w.need
            /\ datapoints' = w.tbl
            /\ errOp' = w.status
            /\ needToNotify' = w.need
            /\ pc' = [pc EXCEPT !.actor = [at |-> "notify", msg |-> msg,
                                           touched |-> w.touched]]
  /\ datastoreQueue' = Tail(datastoreQueue)
  /\ UNCHANGED <<poolHeap, bufPool, held, plast, subs, thread, osFree, caller, respQ, last,
                 alast, nReq, nAdmin, binarySubs, blast>>

\* datastoreUtilNotify goes through the registry and returns; run answers
\* the Write.
NotifyLeave ==
  /\ pc.actor.at = "notify"
  /\ LET msg == pc.actor.msg IN
     \E n \in datastoreUtilNotify(datapoints, subs, bufPool, msg.datapointType,
                                  msg.datapointId) :
       /\ bufPool' = n.pool
       /\ respQ' = IF msg.response # NULL
                      /\ Len(respQ[msg.response]) < DATASTORE_MSG_COUNT
                   THEN [respQ EXCEPT ![msg.response] = Append(@, errOp)]
                   ELSE respQ
       /\ last' = [rid |-> msg.rid, msgType |-> msg.msgType,
                   datapointType |-> msg.datapointType,
                   datapointId |-> msg.datapointId, valCount |-> msg.valCount,
                   values |-> msg.values, response |-> msg.response,
                   status |-> errOp, need |-> needToNotify, notified |-> TRUE,
                   calls |-> n.calls, nerr |-> n.err, touched |-> pc.actor.touched,
                   writes |-> << >>]
  /\ pc' = [pc EXCEPT !.actor = NoPc.actor]
  /\ UNCHANGED <<poolHeap, held, plast, datapoints, subs, thread, osFree, datastoreQueue,
                 errOp, needToNotify, caller, nReq, nAdmin, alast, binarySubs, blast>>

\* A round of run that notifies nobody.
RunQuiet ==
  /\ pc.actor.at = "idle"
  /\ run
  /\ ~last'.notified

RaceNext ==
  \/ Start
  \/ RunQuiet
  \/ NotifyEnter
  \/ NotifyLeave
  \/ \E t \in Types, sub \in Subscriptions : SubscribeEnter(t, sub)
  \/ \E t \in Types, cb \in Callbacks, p \in BOOLEAN : SetPausedEnter(t, cb, p)
  \/ AdminLeave
  \/ \E c \in ActiveCallers, id \in 0..MaxSubId, vals \in StagedValues :
       NotifyWrite(c, DATAPOINT_FLOAT, id, vals)
  \/ \E c \in ActiveCallers : Respond(c)
  \/ \E c \in ActiveCallers : Timeout(c)

SpecRace == Init /\ [][RaceNext]_vars

(***************************************************************************)
(* One thread writes datapoint 0 of the float table without a response     *)
(* queue and another reads it, until datastoreQueue is full and beyond,    *)
(* while the service serves what it is given time for.                     *)
(***************************************************************************)
FillNext ==
  \/ Start
  \/ run
  \/ \E c \in Callers \ ActiveCallers : datastoreRead(c, DATAPOINT_FLOAT, 0, 1)
  \/ \E c \in ActiveCallers : datastoreWrite(c, DATAPOINT_FLOAT, 0, <<MaxVal>>, FALSE)
  \/ \E c \in Callers : Respond(c)
  \/ \E c \in Callers : Timeout(c)

SpecFill == Init /\ [][FillNext]_vars

(***************************************************************************)
(* The float registry alone: datastoreInit with any capacity, then         *)
(* subscribe, pause and unpause calls with any argument, a null callback   *)
(* and a range that ends past the table included.                          *)
(***************************************************************************)
RegistrySubs ==
  [datapointId : {FLOAT_DATAPOINT_COUNT - MaxSubCount, FLOAT_DATAPOINT_COUNT - 1},
   valCount : {1, MaxSubCount}, isPaused : {FALSE}, callback : {NULL} \cup Callbacks]

RegistryNext ==
  \/ \E m \in 0..MaxSubCap : datastoreInit([t \in Types |-> m], m)
  \/ \E sub \in RegistrySubs : Subscribe(DATAPOINT_FLOAT, sub)
  \/ \E cb \in {NULL} \cup Callbacks, p \in BOOLEAN :
       SetPaused(DATAPOINT_FLOAT, cb, p)

SpecRegistry == Init /\ [][RegistryNext]_vars

(***************************************************************************)
(* datastoreInit with and without memory for its allocations, before the   *)
(* calls on the float registry.                                            *)
(***************************************************************************)
InitNext ==
  \/ \E m \in 0..MaxSubCap, k \in 0..PoolStep :
       datastoreInitNoMemory([t \in Types |-> m], m, k)
  \/ RegistryNext

SpecInit == Init /\ [][InitNext]_vars

(***************************************************************************)
(* The binary registry alone.                                              *)
(***************************************************************************)
BinarySubs ==
  [datapointId : {0}, valCount : {1}, isPaused : {FALSE},
   callback : {NULL} \cup Callbacks]

BinaryNext ==
  \/ \E m \in 0..MaxSubCap : datastoreInit([t \in Types |-> m], m)
  \/ \E sub \in BinarySubs : SubscribeBinary(sub)
  \/ \E cb \in {NULL} \cup Callbacks, p \in BOOLEAN : SetPausedBinary(cb, p)

SpecBinary == Init /\ [][BinaryNext]_vars

(***************************************************************************)
(* A client of the pool alone: datastoreBufPoolInit with any two sizes,    *)
(* then any sequence of get and return calls.                              *)
(***************************************************************************)
Buffers == 1..(MaxPoolSize + 1)

PoolInit ==
  /\ \E bs \in 1..MaxBufferSize, ps \in 1..MaxPoolSize :
       bufPool = datastoreBufPoolInit(bs, ps)
  /\ held = {}
  /\ plast = [op |-> "init", buffer |-> NULL, status |-> "OK", oob |-> FALSE,
              outstanding |-> 0, mine |-> TRUE]
  /\ datapoints = InitialDatapoints
  /\ subs = [t \in Types |-> NoSubs]
  /\ thread = "none"
  /\ osFree = 0
  /\ datastoreQueue = << >>
  /\ errOp = "UNSET"
  /\ needToNotify = FALSE
  /\ caller = [c \in Callers |-> NoCall]
  /\ respQ = [c \in Callers |-> << >>]
  /\ last = NoLast
  /\ alast = [op |-> "none", datapointType |-> 0, callback |-> NULL, status |-> "NONE"]
  /\ nReq = 0
  /\ nAdmin = 0
  /\ binarySubs = NoBinarySubs
  /\ blast = NoBinaryCall
  /\ pc = NoPc
  /\ poolHeap = bufPool.poolSize + 2

PoolGet ==
  \E o \in datastoreBufPoolGet(bufPool) :
    /\ bufPool' = o.pool
    /\ held' = IF o.buffer = NULL THEN held ELSE held \cup {o.buffer}
    /\ plast' = [op |-> "get", buffer |-> o.buffer,
                 status |-> IF o.buffer = NULL THEN "ENOSPC" ELSE "OK",
                 oob |-> o.oob, outstanding |-> Cardinality(held),
                 mine |-> plast.mine]
    /\ UNCHANGED sysVars

\* The client gives back a buffer it holds, or any other buffer (a second
\* release, a buffer that is not the pool's).
PoolReturn(b) ==
  /\ bufPool.bufferInPool < MaxOf({bufPool.poolSize, bufPool.bufferSize}) + OobSlack
  /\ \E o \in datastoreBufPoolReturn(bufPool, b) :
       /\ bufPool' = o.pool
       /\ held' = IF o.status = "OK" THEN held \ {b} ELSE held
       /\ plast' = [op |-> "return", buffer |-> b, status |-> o.status,
                    oob |-> o.oob, outstanding |-> Cardinality(held),
                    mine |-> plast.mine /\ b \in held]
  /\ UNCHANGED sysVars

PoolNext ==
  \/ PoolGet
  \/ \E b \in Buffers : PoolReturn(b)

SpecPool == PoolInit /\ [][PoolNext]_vars

(***************************************************************************)
(* The pool from its creation on: datastoreBufPoolInit is called, with or  *)
(* without memory for each of its allocations, until it returns a pool;    *)
(* then the client gets and returns buffers.                               *)
(***************************************************************************)
MaxLeak == 3     \* blocks left allocated after which init is not called again

BufPoolInit(bufferSize, poolSize, failAt) ==
  /\ ~bufPool.valid
  /\ poolHeap < MaxLeak
  /\ LET r == datastoreBufPoolInitNoMemory(bufferSize, poolSize, failAt) IN
       /\ bufPool' = r.pool
       /\ poolHeap' = poolHeap + r.blocks
       /\ plast' = [op |-> "init", buffer |-> NULL,
                    status |-> IF r.pool.valid THEN "OK" ELSE "ENOSPC",
                    oob |-> FALSE, outstanding |-> 0, mine |-> TRUE]
  /\ UNCHANGED <<held, datapoints, subs, thread, osFree, datastoreQueue, errOp,
                 needToNotify, caller, respQ, last, alast, nReq, nAdmin, binarySubs,
                 blast, pc>>

PoolCreateNext ==
  \/ \E bs \in 1..MaxBufferSize, ps \in 1..MaxPoolSize, k \in 0..(MaxPoolSize + 2) :
       BufPoolInit(bs, ps, k)
  \/ bufPool.valid /\ PoolGet
  \/ \E b \in Buffers : bufPool.valid /\ PoolReturn(b)

SpecPoolCreate == Init /\ [][PoolCreateNext]_vars

(***************************************************************************)
(* What the steps of run are checked against.                              *)
(***************************************************************************)

\* The step is a round of run: it serves the message at the head of the queue.
RunStep == datastoreQueue # << >> /\ last'.rid = Head(datastoreQueue).rid

\* The round of run served a request the table operation accepted.
Accepted(kind) == RunStep /\ last'.msgType = kind /\ last'.status = "OK"

\* How often the round of run invoked entry i of the registry it notified.
TimesInvoked(calls, i) == Cardinality({k \in 1..Len(calls) : calls[k].sub = i})

\* The half-open range of a subscription.
SubRange(sub) == sub.datapointId..(sub.datapointId + sub.valCount - 1)

\* C1: a Read or Write request the service processed is accepted iff
\* firstId + count <= N_type and is otherwise answered with the range error
\* (-ENOSPC); the table operation touches no index outside [0, N_type).
C1_RangeSafety ==
  last.msgType \in {"READ", "WRITE"} =>
    /\ (last.status = "OK") <=>
         (last.datapointId + last.valCount <= datapointCounts(last.datapointType))
    /\ last.status \in {"OK", "ENOSPC"}
    /\ last.touched \subseteq 0..(datapointCounts(last.datapointType) - 1)

\* C2: when the service serves a Read of (type, id, count 1) that was enqueued
\* right after a Write of one value v to the same (type, id), id a datapoint
\* of the type, it answers success and stores v in element 0 of the reader's
\* buffer.
C2_WriteThenRead ==
  [][(/\ RunStep
      /\ last'.msgType = "READ"
      /\ last'.valCount = 1
      /\ last.msgType = "WRITE"
      /\ last.valCount = 1
      /\ last.datapointType = last'.datapointType
      /\ last.datapointId = last'.datapointId
      /\ last.datapointId < datapointCounts(last.datapointType)
      /\ last'.rid = last.rid + 1)
     => (/\ last'.status = "OK"
         /\ 0 \in DOMAIN last'.writes
         /\ last'.writes[0] = last.values[1])]_vars

\* C3: an accepted Read of (type, firstId, count) stores the value of
\* datapoint firstId + k in element k of the caller's buffer for every k in
\* [0, count) and changes no table, no registry and not the buffer pool.
C3_ReadPlacesValues ==
  [][Accepted("READ") =>
       (/\ \A k \in 0..(last'.valCount - 1) :
              /\ last'.datapointId + k < datapointCounts(last'.datapointType)
              /\ k \in DOMAIN last'.writes
              /\ last'.writes[k] =
                   datapoints[last'.datapointType][last'.datapointId + k].data
        /\ UNCHANGED <<datapoints, subs, bufPool>>)]_vars

\* C4: after an accepted Write of (type, firstId, values, count) datapoint
\* firstId + k holds values[k] for every k in [0, count); every other
\* datapoint and every datapoint's flags are as before.
C4_WriteStoresValues ==
  [][Accepted("WRITE") =>
       LET t == last'.datapointType
           id == last'.datapointId
           n == last'.valCount
       IN /\ \A k \in 0..(n - 1) :
                /\ id + k < datapointCounts(t)
                /\ datapoints'[t][id + k].data = last'.values[k + 1]
          /\ \A tt \in Types : \A i \in DOMAIN datapoints[tt] :
                /\ datapoints'[tt][i].flags = datapoints[tt][i].flags
                /\ (tt # t \/ i \notin id..(id + n - 1))
                     => datapoints'[tt][i] = datapoints[tt][i]]_vars

\* C5: an accepted Write reports a change, and so triggers the notification,
\* iff one of the written elements differs from the datapoint's value; a
\* Write of the values the datapoints hold invokes no callback and is
\* answered Ok.
C5_NoOpSuppression ==
  [][Accepted("WRITE") =>
       LET t == last'.datapointType
           id == last'.datapointId
           differs == \E k \in 0..(last'.valCount - 1) :
                        \/ id + k >= datapointCounts(t)
                        \/ datapoints[t][id + k].data # last'.values[k + 1]
       IN /\ last'.need <=> differs
          /\ last'.notified <=> differs
          /\ ~differs => last'.calls = << >>]_vars

\* C6: notify for the changed index i, running to its end, invokes an
\* unpaused subscription iff sub.datapointId <= i < sub.datapointId + sub.count.
C6_RangeHit ==
  [][(Accepted("WRITE") /\ last'.notified /\ last'.nerr = "UNSET") =>
       LET entries == subs[last'.datapointType].entries IN
       \A i \in 1..Len(entries) :
         ~entries[i].isPaused =>
           ((TimesInvoked(last'.calls, i) > 0)
              <=> (last'.datapointId \in SubRange(entries[i])))]_vars

\* C7: after a value-changing Write of count elements from firstId on, the
\* notification running to its end, every unpaused subscription of the type
\* whose range meets [firstId, firstId + count) is invoked exactly once and
\* every subscription whose range does not meet it is not invoked.
C7_FanOut ==
  [][(Accepted("WRITE") /\ last'.need /\ last'.nerr = "UNSET") =>
       LET entries == subs[last'.datapointType].entries
           written == last'.datapointId..(last'.datapointId + last'.valCount - 1)
       IN \A i \in 1..Len(entries) :
            TimesInvoked(last'.calls, i) =
              IF ~entries[i].isPaused /\ SubRange(entries[i]) \cap written # {}
              THEN 1 ELSE 0]_vars

\* C8: the payload handed to a notified subscription of type T with range
\* [id, id + count) has count elements, element k being the value datapoint
\* id + k of T's table holds after the write.
C8_Payload ==
  [][Accepted("WRITE") =>
       LET t == last'.datapointType
           entries == subs[t].entries
       IN \A c \in 1..Len(last'.calls) :
            LET call == last'.calls[c]
                sub == entries[call.sub]
            IN /\ Len(call.values) = sub.valCount
               /\ \A k \in 0..(sub.valCount - 1) :
                    /\ sub.datapointId + k < datapointCounts(t)
                    /\ call.values[k + 1] = datapoints'[t][sub.datapointId + k].data]_vars

\* C9: a value-changing write, its notification running to its end, invokes
\* no paused subscription, and invokes the subscription whose unpause was
\* the last call answered Ok when the changed index lies in its range.
C9_PauseSuppression ==
  [][(Accepted("WRITE") /\ last'.notified /\ last'.nerr = "UNSET") =>
       LET t == last'.datapointType
           entries == subs[t].entries
       IN /\ \A i \in 1..Len(entries) :
                entries[i].isPaused => TimesInvoked(last'.calls, i) = 0
          /\ (alast.op = "unpause" /\ alast.status = "OK" /\ alast.datapointType = t)
               => LET i == FirstMatch(entries, alast.callback) IN
                    last'.datapointId \in SubRange(entries[i])
                      => TimesInvoked(last'.calls, i) = 1]_vars

\* C10: for a client that returns only buffers it holds, a get returns no
\* buffer exactly when poolSize buffers are outstanding.
C10_PoolConservation ==
  (plast.op = "get" /\ plast.mine) =>
    ((plast.buffer = NULL) <=> (plast.outstanding = bufPool.poolSize))

\* C11: a return made while the pool holds poolSize (or more) available
\* buffers is answered -ENOSPC and leaves the pool as it was; any other return
\* stores the buffer in the next free slot and adds one to bufferInPool.
C11_Release ==
  [][(plast'.op = "return" /\ bufPool.valid) =>
       IF bufPool.bufferInPool >= bufPool.poolSize
       THEN plast'.status = "ENOSPC" /\ bufPool' = bufPool
       ELSE /\ plast'.status = "OK"
            /\ bufPool'.bufferInPool = bufPool.bufferInPool + 1
            /\ bufPool'.buffers[bufPool.bufferInPool] = plast'.buffer]_vars

\* C12: from init on, 0 <= bufferInPool <= poolSize and the pool neither
\* read nor wrote a slot of buffers outside [0, poolSize).
C12_PoolBounds ==
  bufPool.valid =>
    /\ 0 <= bufPool.bufferInPool
    /\ bufPool.bufferInPool <= bufPool.poolSize
    /\ ~plast.oob
    /\ bufPool.beyond = << >>

\* The slots of the free list whose content the pool stored itself.
FreeSlots(p) ==
  {i \in 0..(p.bufferInPool - 1) : i < p.poolSize \/ i \in DOMAIN p.beyond}

SlotValue(p, i) == IF i < p.poolSize THEN p.buffers[i] ELSE p.beyond[i]

\* C13: no buffer is in the free list and held by a caller at once, and no
\* buffer is in the free list twice (so no get can hand out a buffer that is
\* still held), whatever the holders release.
C13_ExclusiveOwnership ==
  bufPool.valid =>
    /\ \A i \in FreeSlots(bufPool) : SlotValue(bufPool, i) \notin held
    /\ \A i, j \in FreeSlots(bufPool) :
         i # j => SlotValue(bufPool, i) # SlotValue(bufPool, j)

(***************************************************************************)
(* The registries                                                          *)
(***************************************************************************)
\* A step that is a subscribe call, a pause or unpause call.
SubscribeStep == nAdmin' = nAdmin + 1 /\ alast'.op = "subscribe"

SetPausedStep == nAdmin' = nAdmin + 1 /\ alast'.op \in {"pause", "unpause"}

\* The registry a subscribe, pause or unpause step works on, before and after.
RegBefore == subs[alast'.datapointType]

RegAfter == subs'[alast'.datapointType]

\* C14: a subscribe call on an allocated registry, with a callback that is
\* not null, appends the subscription if and only if activeCount + 1 <
\* maxCount and otherwise returns the full error and leaves the registry as
\* it was; after every step no registry holds more entries than its maxCount.
C14_AddCapacity ==
  [][/\ (SubscribeStep /\ RegBefore.allocated /\ alast'.callback # NULL) =>
         IF Len(RegBefore.entries) + 1 < RegBefore.maxCount
         THEN /\ alast'.status = "OK"
              /\ Len(RegAfter.entries) = Len(RegBefore.entries) + 1
              /\ SubSeq(RegAfter.entries, 1, Len(RegBefore.entries)) = RegBefore.entries
              /\ RegAfter.entries[Len(RegAfter.entries)].callback = alast'.callback
              /\ RegAfter.maxCount = RegBefore.maxCount
         ELSE /\ alast'.status = "ENOBUFS"
              /\ subs' = subs
     /\ \A t \in Types : Len(subs'[t].entries) <= subs'[t].maxCount]_vars

\* A subscribe call was refused as full by a registry that holds an entry.
C14_Witness ==
  /\ alast.op = "subscribe"
  /\ alast.status = "ENOBUFS"
  /\ alast.callback # NULL
  /\ subs[alast.datapointType].allocated
  /\ Len(subs[alast.datapointType].entries) >= 1
  /\ Len(subs[alast.datapointType].entries) + 1 = subs[alast.datapointType].maxCount

\* C15: every subscription a registry of type t holds lies inside the table
\* of t: datapointId + valCount <= N_t, subscribe having refused any other.
C15_SubscriptionInRange ==
  \A t \in Types : \A i \in 1..Len(subs[t].entries) :
    subs[t].entries[i].datapointId + subs[t].entries[i].valCount <= datapointCounts(t)

\* A step that is a pause or unpause call on the binary registry.
BinarySetPausedStep == nAdmin' = nAdmin + 1 /\ blast'.op \in {"pause", "unpause"}

\* The entries of the binary registry subscribe calls stored, as indices of
\* entries in the order they were added.
Added(reg) == {k \in 1..Len(reg.entries) : reg.entries[k].callback # UNINIT}

\* C16: a pause or unpause call whose callback an added subscription carries
\* returns Ok and sets the paused flag of the first such subscription in
\* insertion order; every other entry, the later ones with the same callback
\* included, and every range and callback stay as they were.
C16_FirstMatchOnly ==
  [][(/\ BinarySetPausedStep
      /\ blast'.callback # NULL
      /\ \E k \in Added(binarySubs) :
            binarySubs.entries[k].callback = blast'.callback) =>
       /\ blast'.status = "OK"
       /\ binarySubs'.maxCount = binarySubs.maxCount
       /\ binarySubs'.activeCount = binarySubs.activeCount
       /\ \E k \in Added(binarySubs) :
            /\ binarySubs.entries[k].callback = blast'.callback
            /\ \A j \in Added(binarySubs) :
                 j < k => binarySubs.entries[j].callback # blast'.callback
            /\ binarySubs'.entries =
                 [binarySubs.entries EXCEPT ![k].isPaused = (blast'.op = "pause")]]_vars

\* C17: a pause or unpause call with a null callback returns the
\* invalid-argument error, one whose callback no added subscription carries
\* returns the not-found error, and neither changes the registry; no call
\* compares or modifies an entry that subscribe did not add.
C17_PauseErrors ==
  [][BinarySetPausedStep =>
       /\ blast'.callback = NULL =>
            blast'.status = "EINVAL" /\ binarySubs' = binarySubs
       /\ (/\ blast'.callback # NULL
           /\ \A k \in Added(binarySubs) :
                 binarySubs.entries[k].callback # blast'.callback) =>
            blast'.status = "ESRCH" /\ binarySubs' = binarySubs
       /\ \A i \in blast'.compared : i + 1 \in Added(binarySubs)
       /\ \A k \in 1..Len(binarySubs.entries) :
            k \notin Added(binarySubs) => binarySubs'.entries[k] = binarySubs.entries[k]]_vars

\* C18: a subscribe call with a null callback, on an allocated registry that
\* has room, returns the invalid-argument error and leaves the registry as
\* it was; after every step no registry entry has a null callback.
C18_NullCallbackRejected ==
  [][/\ (/\ SubscribeStep
         /\ alast'.callback = NULL
         /\ RegBefore.allocated
         /\ Len(RegBefore.entries) + 1 < RegBefore.maxCount) =>
           alast'.status = "EINVAL" /\ subs' = subs
     /\ \A t \in Types : \A i \in 1..Len(subs'[t].entries) :
           subs'[t].entries[i].callback # NULL]_vars

\* C19: a subscribe call on a registry that was never allocated returns the
\* not-initialized error (-EACCES) and stores nothing; on an allocated
\* registry it never returns that error.
C19_NotInitialized ==
  [][SubscribeStep =>
       IF RegBefore.allocated
       THEN alast'.status # "EACCES"
       ELSE alast'.status = "EACCES" /\ subs' = subs]_vars

\* C20: when a Write changed data and its notification failed, the pool
\* being exhausted or a callback returning an error, the status the service
\* posts on the response queue of the writer is that failure, not Ok.
C20_NotifyFailurePosted ==
  [][(/\ RunStep
      /\ last'.msgType = "WRITE"
      /\ last'.notified
      /\ last'.nerr \in {"ENOSPC", "ECB"}
      /\ last'.response # NULL) =>
       /\ last'.status = last'.nerr
       /\ respQ'[last'.response] = Append(respQ[last'.response], last'.nerr)]_vars

(***************************************************************************)
(* The service: failures, order and answers                                *)
(***************************************************************************)
\* C21: after a Write whose notification failed, every datapoint of the
\* written range holds the value the request carried for it: the failure
\* does not undo the write.
C21_WriteSurvivesNotifyFailure ==
  [][(/\ RunStep
      /\ last'.msgType = "WRITE"
      /\ last'.notified
      /\ last'.nerr \in {"ENOSPC", "ECB"}) =>
       \A k \in 0..(last'.valCount - 1) :
         /\ last'.datapointId + k < datapointCounts(last'.datapointType)
         /\ datapoints'[last'.datapointType][last'.datapointId + k].data
              = last'.values[k + 1]]_vars

\* C22: the service serves the requests in the order they entered
\* datastoreQueue: every step that touches a table, posts a status or serves
\* a message serves the oldest message of the queue, whole, and every
\* message still queued or queued later was admitted after it.
C22_ServedInAdmissionOrder ==
  [][/\ (\/ last' # last
         \/ datapoints' # datapoints
         \/ \E c \in Callers : Len(respQ'[c]) > Len(respQ[c])) =>
           /\ datastoreQueue # << >>
           /\ last'.rid = Head(datastoreQueue).rid
           /\ last'.rid > last.rid
           /\ datastoreQueue' = Tail(datastoreQueue)
           /\ \A k \in 1..Len(datastoreQueue') : datastoreQueue'[k].rid > last'.rid
     /\ Len(datastoreQueue') > Len(datastoreQueue) =>
           /\ last' = last /\ datapoints' = datapoints /\ respQ' = respQ
           /\ SubSeq(datastoreQueue', 1, Len(datastoreQueue)) = datastoreQueue
           /\ \A k \in 1..Len(datastoreQueue) :
                 datastoreQueue[k].rid < datastoreQueue'[Len(datastoreQueue')].rid
           /\ last.rid < datastoreQueue'[Len(datastoreQueue')].rid]_vars

\* The service served two requests of two threads, the first admitted first.
C22_Witness ==
  /\ last.rid = 2
  /\ last.msgType \in {"READ", "WRITE"}
  /\ datastoreQueue = << >>
  /\ \E c, d \in Callers : c # d /\ caller[c].rid = 1 /\ caller[d].rid = 2

C24_CallReturns ==
  /\ \A c \in Callers :
       (caller[c].pc = "wait") ~> (caller[c].pc = "idle" /\ caller[c].status # "NONE")
  /\ [](\A c \in Callers :
          (caller[c].pc = "idle" /\ caller[c].op # "NONE") => caller[c].status # "NONE")

\* A Read returned the timeout error while its request was still queued.
C24_Witness ==
  \E c \in Callers :
    /\ caller[c].op = "READ"
    /\ caller[c].pc = "idle"
    /\ caller[c].status = "EAGAIN"
    /\ \E k \in 1..Len(datastoreQueue) : datastoreQueue[k].rid = caller[c].rid

C26_WholeRequestRejection ==
  [][(/\ RunStep
      /\ last'.msgType \in {"READ", "WRITE"}
      /\ last'.datapointId + last'.valCount > datapointCounts(last'.datapointType)) =>
       /\ last'.status = "ENOSPC"
       /\ datapoints' = datapoints
       /\ ~last'.notified
       /\ last'.writes = << >>]_vars

\* C27: a datastoreInit call in which an allocation failed, of a registry
\* or of the buffer pool, returns an error and creates no service thread.
C27_InitAllOrNothing ==
  [][(alast'.op = "init" /\ alast' # alast) =>
       /\ alast'.status # "OK"
       /\ thread' = "none"]_vars

\* C28: before the service takes its first request it has invoked, once, the
\* callback of every subscription that is registered and not paused.
C28_InitialNotifications ==
  [][(RunStep /\ last.msgType = "NONE") =>
       \A t \in Types : \A i \in 1..Len(subs[t].entries) :
         ~subs[t].entries[i].isPaused =>
           Cardinality({k \in 1..Len(last.calls) :
                          last.calls[k].callback = subs[t].entries[i].callback}) = 1]_vars

\* C29: datastoreUtilNotify visits the subscriptions in insertion order and
\* stops at the first whose buffer cannot be had or whose callback fails,
\* returning that error; when nothing fails it returns 0.
C29_FailFast ==
  [][(RunStep /\ last'.notified) =>
       LET calls == last'.calls IN
         /\ \A k \in 1..(Len(calls) - 1) :
              calls[k].ret = "OK" /\ calls[k].sub < calls[k + 1].sub
         /\ IF calls # << >> /\ calls[Len(calls)].ret # "OK"
            THEN last'.nerr = calls[Len(calls)].ret
            ELSE last'.nerr \in {"OK", "ENOSPC"}]_vars

\* C30: a notification gives back every buffer it took from the pool, when
\* the callback succeeds and when it fails: a round of the service leaves as
\* many buffers available as it found.
C30_NotifyConservesPool ==
  [][(RunStep /\ last'.notified) =>
       bufPool'.bufferInPool = bufPool.bufferInPool]_vars

(***************************************************************************)
(* The service: unknown messages, threads and the queue                    *)
(***************************************************************************)
\* C31: a message whose kind is neither Read nor Write is not fatal: serving
\* it the service changes no table, no registry and not the buffer pool and
\* stays in its loop; and the request it serves next is served as any other,
\* the status being the result of the table operation of that request.
C31_UnknownKindNotFatal ==
  [][/\ (RunStep /\ last'.msgType \notin {"READ", "WRITE"}) =>
          /\ UNCHANGED <<datapoints, subs, binarySubs, bufPool>>
          /\ thread' = "created"
          /\ datastoreQueue' = Tail(datastoreQueue)
     /\ (RunStep /\ last.msgType = "OTHER") =>
          LET msg == Head(datastoreQueue) IN
            /\ thread = "created"
            /\ msg.msgType = "READ" =>
                 last'.status =
                   datastoreUtilReadData(datapoints, msg.datapointType,
                                         msg.datapointId, msg.valCount).status
            /\ msg.msgType = "WRITE" =>
                 \E w \in datastoreUtilWriteData(datapoints, msg.datapointType,
                                                 msg.datapointId, msg.values,
                                                 msg.valCount, needToNotify) :
                   last'.status = w.status /\ datapoints' = w.tbl]_vars

\* The service served a message of unknown kind that carried a response
\* queue, and a Write admitted after it is next in the queue.
C31_Witness ==
  /\ last.msgType = "OTHER"
  /\ last.response # NULL
  /\ thread = "created"
  /\ datastoreQueue # << >>
  /\ Head(datastoreQueue).msgType = "WRITE"
  /\ Head(datastoreQueue).rid > last.rid

\* C32: single writer.  Whatever the threads do, a table is read or modified
\* only by a round of the service, which serves the one message it took
\* from the queue; a step of a Read or Write call, of its start, its answer
\* or its timeout, leaves every table as it is and at most appends one
\* message to the queue.  No step is both.
C32_SingleWriter ==
  [][/\ (datapoints' # datapoints \/ last' # last) =>
          /\ RunStep
          /\ datastoreQueue' = Tail(datastoreQueue)
          /\ nReq' = nReq
          /\ \A c \in Callers : caller'[c].pc = caller[c].pc
          /\ datapoints' # datapoints => last'.msgType = "WRITE"
     /\ (nReq' # nReq \/ \E c \in Callers : caller'[c].pc # caller[c].pc) =>
          /\ datapoints' = datapoints
          /\ last' = last
          /\ \/ datastoreQueue' = datastoreQueue
             \/ /\ Len(datastoreQueue') = Len(datastoreQueue) + 1
                /\ SubSeq(datastoreQueue', 1, Len(datastoreQueue)) = datastoreQueue]_vars

\* The service changed datapoint 0 for the Write of one thread while the
\* Write of another thread waits in the queue and both threads wait for
\* their answer.
C32_Witness ==
  /\ last.msgType = "WRITE"
  /\ datapoints[DATAPOINT_FLOAT][0].data # InitialDatapoints[DATAPOINT_FLOAT][0].data
  /\ Len(datastoreQueue) = 1
  /\ Head(datastoreQueue).msgType = "WRITE"
  /\ \A c \in Callers : caller[c].pc = "wait"
  /\ Head(datastoreQueue).response # last.response

C34_PoolOnlyInService ==
  [][(thread = "created" /\ (osFree' # osFree \/ bufPool' # bufPool)) =>
       /\ RunStep
       /\ nReq' = nReq
       /\ \A c \in Callers : caller'[c].pc = caller[c].pc]_vars

\* A step in which thread c starts a Read or Write call.
CallStep(c) == nReq' = nReq + 1 /\ caller'[c].rid = nReq'

\* C35: a Read or Write call made while datastoreQueue holds
\* DATASTORE_MSG_COUNT messages does not wait without bound: it returns an
\* error status and queues nothing; the request of a call that was refused
\* so is not in the queue and is not the one the service served; and the
\* queue never holds more than DATASTORE_MSG_COUNT messages.
C35_QueueFull ==
  /\ [][\A c \in Callers :
          (CallStep(c) /\ Len(datastoreQueue) >= DATASTORE_MSG_COUNT) =>
            /\ caller'[c].pc = "idle"
            /\ caller'[c].status \notin {"OK", "NONE"}
            /\ datastoreQueue' = datastoreQueue]_vars
  /\ [](/\ Len(datastoreQueue) <= DATASTORE_MSG_COUNT
        /\ \A c \in Callers :
             caller[c].status = "ENOMSG" =>
               /\ last.rid # caller[c].rid
               /\ \A k \in 1..Len(datastoreQueue) :
                    datastoreQueue[k].rid # caller[c].rid)

\* A Write was refused by the full queue, and the service went on to serve
\* a request admitted before it.
C35_Witness ==
  \E c \in Callers :
    /\ caller[c].op = "datastoreWrite"
    /\ caller[c].status = "ENOMSG"
    /\ Len(datastoreQueue) = DATASTORE_MSG_COUNT - 1
    /\ last.rid > 0
    /\ last.rid < caller[c].rid

\* The request with number r is in datastoreQueue.
Queued(r) == \E k \in 1..Len(datastoreQueue) : datastoreQueue[k].rid = r

C37_WrappersConservePool ==
  (thread = "created" /\ \A c \in Callers : caller[c].pc = "idle") =>
    osFree = DATASTORE_BUFFER_COUNT

\* A step that is a subscribe call on the binary registry.
BinarySubscribeStep == nAdmin' = nAdmin + 1 /\ blast'.op = "subscribe"

\* C38: the registry is append-only and keeps insertion order: the k-th
\* successful add is stored at index k - 1, that is at index activeCount of
\* before the call, and adds one to activeCount; activeCount never
\* decreases; the range and the callback of an entry below activeCount never
\* change; a pause or unpause call looks at entries below activeCount only.
C38_AppendOnly ==
  [][/\ (BinarySubscribeStep /\ blast'.status = "OK") =>
          /\ binarySubs'.activeCount = binarySubs.activeCount + 1
          /\ blast'.slot = binarySubs.activeCount
          /\ binarySubs'.entries[binarySubs.activeCount + 1].callback = blast'.callback
     /\ binarySubs'.activeCount >= binarySubs.activeCount
     /\ \A k \in 1..binarySubs.activeCount :
          /\ binarySubs'.entries[k].callback = binarySubs.entries[k].callback
          /\ binarySubs'.entries[k].datapointId = binarySubs.entries[k].datapointId
          /\ binarySubs'.entries[k].valCount = binarySubs.entries[k].valCount
     /\ BinarySetPausedStep =>
          \A i \in blast'.compared : i < binarySubs.activeCount]_vars

\* C39: the creation of the buffer pool fails atomically: a call of
\* datastoreBufPoolInit in which an allocation failed returns no pool and
\* leaves no block allocated that was not allocated before the call.
C39_PoolInitAtomic ==
  [][(plast'.op = "init" /\ plast'.status # "OK") =>
       /\ ~bufPool'.valid
       /\ poolHeap' = poolHeap]_vars

\* The largest table and the largest registry capacity handed to datastoreInit.
LargestTable == MaxOf({datapointCounts(t) : t \in 0..(DATAPOINT_TYPE_COUNT - 1)})

LargestRegistry == MaxOf({subs[t].maxCount : t \in Types})

\* C40: the pool datastoreInit creates has bufferSize = the largest N_type
\* plus DATASTORE_MSG_COUNT and poolSize = the largest maxSubs plus
\* DATASTORE_MSG_COUNT, so that every buffer has room for the largest table
\* and poolSize buffers are there to be taken.
C40_PoolSizing ==
  (thread = "created" /\ held = {} /\ last = NoLast) =>
    /\ bufPool.valid
    /\ bufPool.bufferSize = LargestTable + DATASTORE_MSG_COUNT
    /\ bufPool.poolSize = LargestRegistry + DATASTORE_MSG_COUNT
    /\ BufferElements(bufPool) >= LargestTable
    /\ bufPool.bufferInPool = bufPool.poolSize
====
